---- MODULE Spec2Model ----
(***************************************************************************)
(* depak: the Kingdoms of Amalur PAK dumper (src/depak/main.cpp).         *)
(*                                                                         *)
(* One behaviour is one run of main() on one container file.  The file is *)
(* the variable pak, fixed by Init; the other variables are the locals of *)
(* main, process_pak_karl and the for_each lambda, plus logs of what the   *)
(* run did to the outside world (calls to save_compressed_file, fopen_s    *)
(* attempts, files written, console messages).                            *)
(*                                                                         *)
(* Abstractions, all stated where they are made:                          *)
(*  - the file is a set of blocks addressed by position (unit Unknown00), *)
(*    each block carrying its two leading u32 words and what follows them  *)
(*    read as name records and read as a chunk table plus chunk bytes;    *)
(*  - uint32_t arithmetic of the string-table accumulator is done modulo  *)
(*    2^AccBits, a reduced word width, so that wrap-around is reachable;   *)
(*  - aP_depack_asm (aPLib, an external library) is a run-length decoder  *)
(*    standing in for the real decompressor: deterministic, stateless,    *)
(*    output length depending on the input;                               *)
(*  - a std::string is the pair of its length() and its c_str().           *)
(***************************************************************************)
EXTENDS Integers, Sequences, FiniteSets, TLC

VARIABLES pak, pc, header, fileEntries, stringEntries, fileEntry, tablePos,
          tSize, sSize, nRead, fpos, unknownFileCount, idx,
          saveCalls, openLog, dump, console

vars == <<pak, pc, header, fileEntries, stringEntries, fileEntry, tablePos,
          tSize, sSize, nRead, fpos, unknownFileCount, idx,
          saveCalls, openLog, dump, console>>

(***************************************************************************)
(* Bounds of the model.                                                    *)
(***************************************************************************)
\* Records in the entry table.
MaxEntries == 3

\* Name records the file holds behind a string-table header.
MaxNameRecords == 2

\* Chunks of one compressed file.
MaxChunks == 2

\* Width in bits of the model's uint32_t (tSize, sSize, NameSize).
AccBits == 5

(***************************************************************************)
(* Program constants.                                                      *)
(***************************************************************************)
KaikoCompressedLE == 1817329995

KaikoCompressedBE == 1649557835

CompressedLE == 1816875083

HeaderSize == 32

NameHeaderSize == 8

DecBufLen == 4096

\* The number of values of the model's uint32_t.
U32 == 2 ^ AccBits

(***************************************************************************)
(* Generic helpers.                                                        *)
(***************************************************************************)
Range(s) == {s[i] : i \in 1..Len(s)}

Count(s, e) == Cardinality({i \in 1..Len(s) : s[i] = e})

IsPermutation(a, b) ==
    /\ Len(a) = Len(b)
    /\ \A e \in Range(a) \cup Range(b) : Count(a, e) = Count(b, e)

SeqsUpTo(S, n) == UNION {[1..k -> S] : k \in 0..n}

RECURSIVE SumSeq(_)
SumSeq(s) == IF s = <<>> THEN 0 ELSE s[1] + SumSeq(Tail(s))

(***************************************************************************)
(* Data structures.                                                        *)
(***************************************************************************)
pakfileentry_t(crc, position, size) ==
    [Crc |-> crc, Position |-> position, Size |-> size]

pakfilename_t(fileId, nameSize, name) ==
    [FileId |-> fileId, NameSize |-> nameSize, Name |-> name]

pakheader_t(signature, isValid, unknown00) ==
    [Signature |-> signature, IsValid |-> isValid, Unknown00 |-> unknown00]

StdString(chars) == [length |-> Len(chars), c_str |-> chars]

\* std::string fname(name.NameSize, '\0') after fread of the bytes the file
\* still holds: length() is NameSize, c_str() stops at the first NUL.
ReadString(nameSize, chars) == [length |-> nameSize, c_str |-> chars]

\* What a block of the file holds: w0, w1 are its first two u32 words
\* (tSize, unk00 of a string table; fileSize, chunks of a compressed file),
\* names is what follows read as pakfilename_t records, sizes and data what
\* follows read as the chunk-size table and the raw chunk bytes.
Block(w0, w1, names, sizes, data) ==
    [w0 |-> w0, w1 |-> w1, names |-> names, sizes |-> sizes, data |-> data]

\* Reads beyond the end of the file leave the zero-initialised locals.
ZeroBlock == Block(0, 0, <<>>, <<>>, <<>>)

ZeroEntry == pakfileentry_t(0, 0, 0)

ZeroHeader == pakheader_t(0, 0, 0)

(***************************************************************************)
(* The container files the runs are started on.                           *)
(***************************************************************************)
Signatures == {KaikoCompressedLE, KaikoCompressedBE, CompressedLE}

FileSizes == {16, 4096}

Scales == {1, 16}

Ids == {0, 1, 2}

Positions == {1, 2, 3}

Names == {"", "a", "bc"}

\* A string table whose single record names id 1 "a", which is also a
\* compressed file of one chunk <<2, 1>>.
DefaultBlock ==
    Block(NameHeaderSize + 1, 1, <<pakfilename_t(1, 1, "a")>>, <<2>>, <<2, 1>>)

\* A compressed file of no chunks.
EmptyFileBlock == Block(0, 0, <<>>, <<>>, <<>>)

Pak(size, hdr, sCount, entries, blocks) ==
    [size |-> size, header |-> hdr, sCount |-> sCount, entries |-> entries,
     blocks |-> blocks]

ThreeEntries ==
    <<pakfileentry_t(1, 1, 4), pakfileentry_t(2, 2, 4), pakfileentry_t(0, 3, 4)>>

\* Every header, good and bad, in front of one fixed body.
HeaderPaks ==
    {Pak(size, pakheader_t(sig, valid, 16), sCount, ThreeEntries,
         [p \in Positions |-> DefaultBlock]) :
        size \in FileSizes, sig \in Signatures, valid \in {0, 1},
        sCount \in {0, 2}}

\* The DefaultBlock string table, which as a compressed file has no chunks.
TableOnlyBlock ==
    Block(NameHeaderSize + 1, 0, <<pakfilename_t(1, 1, "a")>>, <<>>, <<>>)

\* Every entry table of up to MaxEntries records.
EntryPaks ==
    {Pak(4096, pakheader_t(KaikoCompressedLE, 1, scale), 0, entries,
         [p \in Positions |-> IF p = 1 THEN DefaultBlock ELSE TableOnlyBlock]) :
        scale \in Scales,
        entries \in SeqsUpTo({pakfileentry_t(c, p, 4) : c \in {1, 2}, p \in Positions},
                             MaxEntries)}

\* Name records that lie wholly inside the file.
FullRecords ==
    {pakfilename_t(1, Len(n), n) : n \in Names} \cup {pakfilename_t(0, 1, "a")}

\* A last record cut short by the end of the file: the name size it declares
\* is larger than the bytes that are left (none).
CutRecords == {pakfilename_t(1, U32 - 16, "")}

NameTables ==
    SeqsUpTo(FullRecords, MaxNameRecords)
        \cup {Append(t, r) : t \in SeqsUpTo(FullRecords, MaxNameRecords - 1),
                             r \in CutRecords}

\* Every string table (declared size and records), located by the entry at
\* position 3, with two extractable entries in front of it.
NamePaks ==
    {Pak(4096, pakheader_t(KaikoCompressedLE, 1, 16), 0,
         <<pakfileentry_t(ab[1], 1, 4), pakfileentry_t(ab[2], 2, 4),
           pakfileentry_t(0, 3, 4)>>,
         [p \in Positions |->
            IF p = 3 THEN Block(t, 0, names, <<>>, <<>>) ELSE EmptyFileBlock]) :
        ab \in {<<1, 2>>, <<2, 0>>, <<2, 1>>}, t \in 0..(U32 - 1),
        names \in NameTables}

DataStreams == {<<>>, <<1, 2>>, <<2, 1, 1, 2, 1, 1>>}

ChunkSizes == {0, 2, 4}

Payloads ==
    {Block(6, Len(sizes), <<>>, sizes, data) :
        sizes \in SeqsUpTo(ChunkSizes, MaxChunks), data \in DataStreams}

\* Every pair of compressed files behind two extractable entries.
DumpPaks ==
    {Pak(4096, pakheader_t(KaikoCompressedLE, 1, 16), 0, ThreeEntries,
         [p \in Positions |-> IF p = 1 THEN b1 ELSE IF p = 2 THEN b2 ELSE DefaultBlock]) :
        b1 \in Payloads,
        b2 \in {EmptyFileBlock, DefaultBlock,
                Block(6, 2, <<>>, <<4, 2>>, <<1, 1, 2, 2, 1, 0>>)}}

PakFiles == HeaderPaks \cup EntryPaks \cup NamePaks \cup DumpPaks

(***************************************************************************)
(* File access.                                                            *)
(***************************************************************************)
\* _fseeki64(f, offset, SEEK_SET) followed by reads: the block stored at that
\* byte offset; zeros where the file holds no block.
ReadBlock(offset) ==
    LET scale == pak.header.Unknown00 IN
    IF scale > 0 /\ offset % scale = 0 /\ (offset \div scale) \in DOMAIN pak.blocks
    THEN pak.blocks[offset \div scale]
    ELSE ZeroBlock

\* Mutant: the position used as a byte offset, unscaled.
ScaledOffset_unscaled(position) == position

\* (uint64_t)position * header->Unknown00
ScaledOffset(position) == position * header.Unknown00

(***************************************************************************)
(* std::sort with the comparator get<1>(a) < get<1>(b).  The standard      *)
(* promises a permutation ordered by the comparator and leaves the order  *)
(* of equivalent elements unspecified: every such outcome is possible.     *)
(***************************************************************************)
PositionLess(a, b) == a.Position < b.Position

SortedBy(s) == \A i \in 1..(Len(s) - 1) : ~PositionLess(s[i + 1], s[i])

std_sort(v) ==
    {s \in [1..Len(v) -> Range(v)] : IsPermutation(s, v) /\ SortedBy(s)}

(***************************************************************************)
(* std::find_if over stringEntries: the index of the first tuple whose id *)
(* equals crc, Len + 1 (end()) when there is none.                         *)
(***************************************************************************)
\* Mutant: the last match instead of the first.
find_if_last(entries, crc) ==
    LET hits == {i \in 1..Len(entries) : entries[i][1] = crc} IN
    IF hits = {} THEN Len(entries) + 1
    ELSE CHOOSE i \in hits : \A j \in hits : i >= j

find_if(entries, crc) ==
    LET hits == {i \in 1..Len(entries) : entries[i][1] = crc} IN
    IF hits = {} THEN Len(entries) + 1
    ELSE CHOOSE i \in hits : \A j \in hits : i <= j

\* sentry != stringEntries.end() ? std::get<1>(*sentry) : ""
LookupName(entries, crc) ==
    LET sentry == find_if(entries, crc) IN
    IF sentry # Len(entries) + 1 THEN entries[sentry][2] ELSE StdString("")

(***************************************************************************)
(* sprintf_s(fileName, "%08X.unknown_file", unknownFileCount)              *)
(***************************************************************************)
HexDigits ==
    <<"0", "1", "2", "3", "4", "5", "6", "7", "8", "9", "A", "B", "C", "D", "E", "F">>

HexDigit(n, k) == HexDigits[((n \div (16 ^ k)) % 16) + 1]

Hex8(n) ==
    HexDigit(n, 7) \o HexDigit(n, 6) \o HexDigit(n, 5) \o HexDigit(n, 4)
        \o HexDigit(n, 3) \o HexDigit(n, 2) \o HexDigit(n, 1) \o HexDigit(n, 0)

UnknownFileName(n) == Hex8(n) \o ".unknown_file"

(***************************************************************************)
(* Chunk decompression.                                                    *)
(***************************************************************************)
\* The decompressor: <<count, value, count, value, ...>> expands to count
\* copies of each value; a trailing odd byte is ignored.
RECURSIVE aP_depack_asm(_)
aP_depack_asm(source) ==
    IF Len(source) < 2 THEN <<>>
    ELSE [i \in 1..source[1] |-> source[2]] \o aP_depack_asm(Tail(Tail(source)))

\* fread(bufferEnc.data(), 1, n, f) into a zero-filled buffer of n bytes.
ReadChunk(stream, n) ==
    [i \in 1..n |-> IF i <= Len(stream) THEN stream[i] ELSE 0]

\* The rest of the stream after n bytes were asked for.
Advance(stream, n) ==
    IF n >= Len(stream) THEN <<>> ELSE SubSeq(stream, n + 1, Len(stream))

\* Mutant: the whole 4096-byte buffer appended, whatever decSize is.
Decompressed_whole_buffer(bufferEnc) ==
    LET out == aP_depack_asm(bufferEnc)
    IN [i \in 1..DecBufLen |-> IF i <= Len(out) THEN out[i] ELSE 0]

\* bufferDec.begin() .. bufferDec.begin() + decSize of the 4096-byte buffer the
\* decompressor wrote into.
Decompressed(bufferEnc) ==
    LET out == aP_depack_asm(bufferEnc)
        decSize == Len(out)
    IN [i \in 1..decSize |-> IF i <= Len(out) THEN out[i] ELSE 0]

\* The loop over the chunks: fileData after chunk x, x + 1, ...
RECURSIVE DecompressChunks(_, _, _, _)
DecompressChunks(stream, chunkSizes, x, fileData) ==
    IF x > Len(chunkSizes) THEN fileData
    ELSE DecompressChunks(Advance(stream, chunkSizes[x]), chunkSizes, x + 1,
                          fileData \o Decompressed(ReadChunk(stream, chunkSizes[x])))

\* The chunk sizes table: chunks u32 values, zero past the end of the file.
ReadChunkSizes(blk, chunks) ==
    [x \in 1..chunks |-> IF x <= Len(blk.sizes) THEN blk.sizes[x] ELSE 0]

(***************************************************************************)
(* The run.                                                                *)
(***************************************************************************)
Start(files) ==
    /\ pak \in files
    /\ pc = "main"
    /\ header = ZeroHeader
    /\ fileEntries = <<>>
    /\ stringEntries = <<>>
    /\ fileEntry = ZeroEntry
    /\ tablePos = 0
    /\ tSize = 0
    /\ sSize = 0
    /\ nRead = 0
    /\ fpos = 0
    /\ unknownFileCount = 0
    /\ idx = 1
    /\ saveCalls = <<>>
    /\ openLog = <<>>
    /\ dump = <<>>
    /\ console = <<>>

Init == Start(PakFiles)

Locals == <<header, fileEntries, stringEntries, fileEntry, tablePos, tSize, sSize,
            nRead, fpos, unknownFileCount, idx>>

Outputs == <<saveCalls, openLog, dump>>

\* main: size < sizeof(pakheader_t)
main_invalid_size ==
    /\ pc = "main"
    /\ pak.size < HeaderSize
    /\ console' = Append(console, <<"Invalid file size; cannot parse PAK file.">>)
    /\ pc' = "exit"
    /\ UNCHANGED <<pak, Locals, Outputs>>

\* main: the default case of the switch on header.Signature
process_pak_unsupported ==
    /\ pc = "main"
    /\ pak.size >= HeaderSize
    /\ pak.header.Signature # KaikoCompressedLE
    /\ header' = pak.header
    /\ console' = Append(console, <<"PAK file type unsupported!">>)
    /\ pc' = "exit"
    /\ UNCHANGED <<pak, fileEntries, stringEntries, fileEntry, tablePos, tSize, sSize,
                   nRead, fpos, unknownFileCount, idx, Outputs>>

\* process_pak_karl: header->IsValid == 0 (f is open and fileSize is not 0
\* whenever main gets this far)
process_pak_karl_invalid ==
    /\ pc = "main"
    /\ pak.size >= HeaderSize
    /\ pak.header.Signature = KaikoCompressedLE
    /\ pak.header.IsValid = 0
    /\ header' = pak.header
    /\ console' = Append(console, <<"Invalid PAK information; cannot process.">>)
    /\ pc' = "exit"
    /\ UNCHANGED <<pak, fileEntries, stringEntries, fileEntry, tablePos, tSize, sSize,
                   nRead, fpos, unknownFileCount, idx, Outputs>>

\* process_pak_karl: the entry counts, the do-while over the eCount entries,
\* the sort, and the warning about special entries.
process_pak_karl_entries ==
    /\ pc = "main"
    /\ pak.size >= HeaderSize
    /\ pak.header.Signature = KaikoCompressedLE
    /\ pak.header.IsValid # 0
    /\ header' = pak.header
    /\ LET eCount == Len(pak.entries)
           sCount == pak.sCount
       IN /\ IF eCount > 0
             THEN fileEntries' \in std_sort(pak.entries)
             ELSE fileEntries' = <<>>
          /\ console' = IF sCount > 0
                        THEN Append(console,
                                    <<"Special entries are not currently supported.">>)
                        ELSE console
          /\ pc' = IF eCount > 0 THEN "strings" ELSE "dump"
    /\ UNCHANGED <<pak, stringEntries, fileEntry, tablePos, tSize, sSize,
                   nRead, fpos, unknownFileCount, idx, Outputs>>

\* Mutant: the tSize == 0 branch without its return.
process_pak_karl_invalid_strings_no_return ==
    /\ pc = "strings"
    /\ LET back == fileEntries[Len(fileEntries)]
           offset == ScaledOffset(back.Position)
       IN /\ ReadBlock(offset).w0 % U32 = 0
          /\ fileEntry' = back
          /\ fileEntries' = SubSeq(fileEntries, 1, Len(fileEntries) - 1)
          /\ tablePos' = offset
          /\ tSize' = 0
    /\ fpos' = NameHeaderSize
    /\ console' = Append(console,
                         <<"Invalid string table size; cannot continue to parse.">>)
    /\ pc' = "dump"
    /\ UNCHANGED <<pak, header, stringEntries, sSize, nRead, unknownFileCount, idx,
                   Outputs>>

\* process_pak_karl: back(), pop_back(), the seek to the string table and the
\* read of its header, when the table size read is 0.
process_pak_karl_invalid_strings ==
    /\ pc = "strings"
    /\ LET back == fileEntries[Len(fileEntries)]
           offset == ScaledOffset(back.Position)
       IN /\ ReadBlock(offset).w0 % U32 = 0
          /\ fileEntry' = back
          /\ fileEntries' = SubSeq(fileEntries, 1, Len(fileEntries) - 1)
          /\ tablePos' = offset
          /\ tSize' = 0
    /\ fpos' = NameHeaderSize
    /\ console' = Append(console,
                         <<"Invalid string table size; cannot continue to parse.">>)
    /\ pc' = "exit"
    /\ UNCHANGED <<pak, header, stringEntries, sSize, nRead, unknownFileCount, idx,
                   Outputs>>

\* process_pak_karl: the same, when the table size read is not 0.
process_pak_karl_strings ==
    /\ pc = "strings"
    /\ LET back == fileEntries[Len(fileEntries)]
           offset == ScaledOffset(back.Position)
       IN /\ ReadBlock(offset).w0 % U32 # 0
          /\ fileEntry' = back
          /\ fileEntries' = SubSeq(fileEntries, 1, Len(fileEntries) - 1)
          /\ tablePos' = offset
          /\ tSize' = ReadBlock(offset).w0 % U32
    /\ fpos' = NameHeaderSize
    /\ sSize' = 0
    /\ pc' = "names"
    /\ UNCHANGED <<pak, header, stringEntries, nRead, unknownFileCount, idx,
                   Outputs, console>>

\* Mutant: the loop going on while sSize <= tSize.
LoopAgain_le(s, t) == s <= t

\* } while (sSize < tSize);
LoopAgain(s, t) == s < t

\* sSize += sizeof(pakfilename_t) + name.NameSize, in uint32_t
Accumulate(s, nameSize) == (s + NameHeaderSize + nameSize) % U32

\* process_pak_karl: one pass of the do-while over the string table.  Past
\* the end of the file both freads fail and name stays {0, 0}.  Once the
\* file is exhausted every further tuple pushed is the same (0, ""); the
\* model keeps one copy of such a run of equal tuples (no find_if result
\* depends on the copies).
process_pak_karl_name ==
    /\ pc = "names"
    /\ LET held == ReadBlock(tablePos).names
           atEnd == nRead >= Len(held)
           name == IF atEnd THEN pakfilename_t(0, 0, "") ELSE held[nRead + 1]
           fname == ReadString(name.NameSize, name.Name)
           pushed == <<name.FileId, fname>>
       IN /\ stringEntries' =
                IF atEnd /\ stringEntries # <<>>
                         /\ stringEntries[Len(stringEntries)] = pushed
                THEN stringEntries
                ELSE Append(stringEntries, pushed)
          /\ nRead' = IF atEnd THEN nRead ELSE nRead + 1
          /\ fpos' = IF atEnd THEN fpos ELSE fpos + NameHeaderSize + Len(name.Name)
          /\ sSize' = Accumulate(sSize, name.NameSize)
          /\ pc' = IF LoopAgain(Accumulate(sSize, name.NameSize), tSize)
                   THEN "names" ELSE "dump"
    /\ UNCHANGED <<pak, header, fileEntries, fileEntry, tablePos, tSize,
                   unknownFileCount, idx, Outputs, console>>

\* Mutant: the output file opened and written outside the chunks > 0 branch.
save_compressed_file_always_open(name, offset, size) ==
    LET call == Len(saveCalls) + 1
        blk == ReadBlock(offset)
        chunks == blk.w1
        chunkSizes == ReadChunkSizes(blk, chunks)
        fileData == DecompressChunks(blk.data, chunkSizes, 1, <<>>)
        filePath == "dump//" \o name.c_str
    IN /\ saveCalls' = Append(saveCalls, [name |-> name, offset |-> offset,
                                          size |-> size])
       /\ openLog' = Append(openLog, [call |-> call, path |-> filePath])
       /\ \E opened \in BOOLEAN :
            IF opened
            THEN /\ dump' = Append(dump, [call |-> call, path |-> filePath,
                                          data |-> fileData])
                 /\ console' = console
            ELSE /\ dump' = dump
                 /\ console' = Append(console,
                                      <<"Failed to dump file", call, filePath>>)

\* save_compressed_file(f, name, offset, size); call is the number of the call.
save_compressed_file(name, offset, size) ==
    LET call == Len(saveCalls) + 1
        blk == ReadBlock(offset)
        chunks == blk.w1
        chunkSizes == ReadChunkSizes(blk, chunks)
        fileData == DecompressChunks(blk.data, chunkSizes, 1, <<>>)
        filePath == "dump//" \o name.c_str
    IN /\ saveCalls' = Append(saveCalls, [name |-> name, offset |-> offset,
                                          size |-> size])
       /\ IF chunks > 0
          THEN /\ openLog' = Append(openLog, [call |-> call, path |-> filePath])
               /\ \E opened \in BOOLEAN :
                    IF opened
                    THEN /\ dump' = Append(dump, [call |-> call, path |-> filePath,
                                                  data |-> fileData])
                         /\ console' = console
                    ELSE /\ dump' = dump
                         /\ console' = Append(console,
                                              <<"Failed to dump file", call, filePath>>)
          ELSE UNCHANGED <<openLog, dump, console>>

\* Mutant: the counter advanced for every entry, named or not.
ResolveName_count_every(e) ==
    LET found == LookupName(stringEntries, e.Crc) IN
    IF found.length = 0
    THEN [name |-> StdString(UnknownFileName(unknownFileCount)),
          count |-> unknownFileCount + 1]
    ELSE [name |-> found, count |-> unknownFileCount + 1]

\* The name the lambda gives entry e, and the counter after it.
ResolveName(e) ==
    LET found == LookupName(stringEntries, e.Crc) IN
    IF found.length = 0
    THEN [name |-> StdString(UnknownFileName(unknownFileCount)),
          count |-> unknownFileCount + 1]
    ELSE [name |-> found, count |-> unknownFileCount]

\* Mutant: a failed fopen_s ends the for_each.
process_pak_karl_dump_abort ==
    /\ pc = "dump"
    /\ idx <= Len(fileEntries)
    /\ LET e == fileEntries[idx]
           r == ResolveName(e)
       IN /\ unknownFileCount' = r.count
          /\ save_compressed_file(r.name, ScaledOffset(e.Position), e.Size)
    /\ idx' = IF console' # console THEN Len(fileEntries) + 1 ELSE idx + 1
    /\ UNCHANGED <<pak, pc, header, fileEntries, stringEntries, fileEntry, tablePos,
                   tSize, sSize, nRead, fpos>>

\* process_pak_karl: the for_each lambda applied to the next entry.
process_pak_karl_dump ==
    /\ pc = "dump"
    /\ idx <= Len(fileEntries)
    /\ LET e == fileEntries[idx]
           r == ResolveName(e)
       IN /\ unknownFileCount' = r.count
          /\ save_compressed_file(r.name, ScaledOffset(e.Position), e.Size)
    /\ idx' = idx + 1
    /\ UNCHANGED <<pak, pc, header, fileEntries, stringEntries, fileEntry, tablePos,
                   tSize, sSize, nRead, fpos>>

\* process_pak_karl returns after the last entry ("done"; "exit" is a return
\* after an error message).
process_pak_karl_return ==
    /\ pc = "dump"
    /\ idx > Len(fileEntries)
    /\ pc' = "done"
    /\ UNCHANGED <<pak, Locals, Outputs, console>>

Next ==
    \/ main_invalid_size
    \/ process_pak_unsupported
    \/ process_pak_karl_invalid
    \/ process_pak_karl_entries
    \/ process_pak_karl_invalid_strings
    \/ process_pak_karl_strings
    \/ process_pak_karl_name
    \/ process_pak_karl_dump
    \/ process_pak_karl_return

Spec == Init /\ [][Next]_vars

\* The run is one thread: whatever step is enabled is taken.
FairSpec == Start(HeaderPaks \cup NamePaks) /\ [][Next]_vars /\ WF_vars(Next)

(***************************************************************************)
(* Vocabulary of the properties.                                           *)
(***************************************************************************)
\* process_pak_karl ran to its end: every entry went through the lambda.
KarlReturned == pc = "done"

MaxPosition(entries) ==
    CHOOSE p \in {e.Position : e \in Range(entries)} :
        \A e \in Range(entries) : e.Position <= p

\* The declared size of the string table of the file: the first word of the
\* block at the highest position.
DeclaredTableSize == pak.blocks[MaxPosition(pak.entries)].w0 % U32

StructuralFailure ==
    \/ pak.size < HeaderSize
    \/ pak.header.Signature # KaikoCompressedLE
    \/ pak.header.IsValid = 0
    \/ (Len(pak.entries) > 0 /\ DeclaredTableSize = 0)

Attempted == {o.call : o \in Range(openLog)}

Written == {w.call : w \in Range(dump)}

Failed == {m[2] : m \in {c \in Range(console) : c[1] = "Failed to dump file"}}

\* C1: a structural failure (file shorter than the header, a signature other
\* than KaikoCompressedLE, IsValid = 0, or a string table of declared size 0)
\* ends the run with no call to save_compressed_file and no file opened or
\* written, whatever the entry table holds.
C1_StructuralFailureExtractsNothing ==
    StructuralFailure =>
        /\ pc \in {"main", "strings", "exit"}
        /\ saveCalls = <<>>
        /\ openLog = <<>>
        /\ dump = <<>>

C1_Witness ==
    /\ pc = "exit"
    /\ Len(pak.entries) = 3
    /\ DeclaredTableSize = 0
    /\ Len(fileEntries) = 2
    /\ saveCalls = <<>>

\* The stable ascending sort by position: e goes behind every element whose
\* position is not larger.
RECURSIVE InsertStable(_, _)
InsertStable(s, e) ==
    IF s = <<>> THEN <<e>>
    ELSE IF e.Position < s[1].Position THEN <<e>> \o s
    ELSE <<s[1]>> \o InsertStable(Tail(s), e)

RECURSIVE StableSort(_)
StableSort(v) ==
    IF v = <<>> THEN <<>>
    ELSE InsertStable(StableSort(SubSeq(v, 1, Len(v) - 1)), v[Len(v)])

\* C2: the sequence the entry table decoder produces is the stable ascending
\* sort by position of the records read: a permutation of them, non-decreasing
\* in position, entries of equal position in their read order.
C2_StableSortByPosition ==
    pc = "strings" => fileEntries = StableSort(pak.entries)

\* The positions of the entries in ascending order.
RECURSIVE SortedPositions(_)
SortedPositions(ps) ==
    IF ps = <<>> THEN <<>>
    ELSE LET m == CHOOSE i \in 1..Len(ps) : \A j \in 1..Len(ps) : ps[i] <= ps[j]
         IN <<ps[m]>> \o SortedPositions(SubSeq(ps, 1, m - 1) \o SubSeq(ps, m + 1, Len(ps)))

PositionsOf(entries) == [i \in 1..Len(entries) |-> entries[i].Position]

\* C3: with entryCount >= 1 and a string table of non-zero size, the entry of
\* highest position is the string-table locator and is not emitted; the table
\* is read at locator.Position * Unknown00; the other entryCount - 1 entries
\* are each handed once to save_compressed_file, in ascending position order,
\* at offset Position * Unknown00.
C3_LocatorConsumedRestEmitted ==
    (Len(pak.entries) >= 1 /\ ~StructuralFailure /\ pc \notin {"main", "strings"}) =>
        LET scale == pak.header.Unknown00
            order == SortedPositions(PositionsOf(pak.entries))
        IN /\ pc \in {"names", "dump", "done"}
           /\ fileEntry.Position = MaxPosition(pak.entries)
           /\ tablePos = MaxPosition(pak.entries) * scale
           /\ IsPermutation(Append(fileEntries, fileEntry), pak.entries)
           /\ Len(saveCalls) <= Len(pak.entries) - 1
           /\ \A j \in 1..Len(saveCalls) :
                /\ saveCalls[j].offset = order[j] * scale
                /\ saveCalls[j].offset = fileEntries[j].Position * scale
                /\ saveCalls[j].size = fileEntries[j].Size
           /\ KarlReturned => Len(saveCalls) = Len(pak.entries) - 1

C3_Witness ==
    /\ KarlReturned
    /\ pak.header.Unknown00 = 16
    /\ Len(pak.entries) = 3
    /\ pak.entries[1].Position = 3
    /\ tablePos = 48
    /\ Len(saveCalls) = 2
    /\ saveCalls[1].offset = 16
    /\ saveCalls[2].offset = 32

\* The string-table tuples whose id is crc, as indices into stringEntries.
Hits(crc) == {i \in 1..Len(stringEntries) : stringEntries[i][1] = crc}

FirstHit(crc) == CHOOSE i \in Hits(crc) : \A k \in Hits(crc) : i <= k

LastHit(crc) == CHOOSE i \in Hits(crc) : \A k \in Hits(crc) : i >= k

\* C4 as stated: with two or more name records of the same contentId, the
\* name given to an entry of that contentId is the name of the LAST such
\* record in table order.  (Stated for records whose names are not empty.)
C4_LastRecordWins ==
    \A j \in 1..Len(saveCalls) :
        LET crc == fileEntries[j].Crc IN
        (/\ Cardinality(Hits(crc)) >= 2
         /\ \A i \in Hits(crc) : stringEntries[i][2].length > 0)
            => saveCalls[j].name = stringEntries[LastHit(crc)][2]

\* C4 amended: the name given to an entry is the name of the FIRST record of
\* its contentId in table order, whatever later records of that id say, when
\* that first name is not empty; when it is empty the entry gets a synthetic
\* name even if a later record of the id has a name.
C4_FirstRecordWins ==
    \A j \in 1..Len(saveCalls) :
        LET crc == fileEntries[j].Crc IN
        Hits(crc) # {} =>
            LET first == stringEntries[FirstHit(crc)][2] IN
            IF first.length > 0
            THEN saveCalls[j].name = first
            ELSE \E n \in 0..Len(saveCalls) :
                    saveCalls[j].name = StdString(UnknownFileName(n))

C4_Witness ==
    \E j \in 1..Len(saveCalls) :
        LET crc == fileEntries[j].Crc IN
        /\ Cardinality(Hits(crc)) >= 2
        /\ stringEntries[FirstHit(crc)][2] = StdString("a")
        /\ stringEntries[LastHit(crc)][2] = StdString("bc")
        /\ saveCalls[j].name = StdString("a")

\* The name records read from inside the file (not the zero records that
\* reads past its end leave behind).
RecordsRead == SubSeq(ReadBlock(tablePos).names, 1, nRead)

HasNameRecord(crc) == \E i \in 1..Len(RecordsRead) : RecordsRead[i].FileId = crc

\* The number of the first j emitted entries whose id is in the set unresolved.
CountBefore(unresolved, j) ==
    Cardinality({k \in 1..j : fileEntries[k].Crc \in unresolved})

\* Synthetic names are sequential over the entries whose id is in unresolved.
SyntheticNames(unresolved) ==
    /\ \A j \in 1..Len(saveCalls) :
          fileEntries[j].Crc \in unresolved =>
              saveCalls[j].name =
                  StdString(UnknownFileName(CountBefore(unresolved, j - 1)))
    /\ unknownFileCount = CountBefore(unresolved, Len(saveCalls))
    /\ \A j, k \in 1..Len(saveCalls) :
          (j # k /\ fileEntries[j].Crc \in unresolved
                 /\ fileEntries[k].Crc \in unresolved)
              => saveCalls[j].name # saveCalls[k].name

NoNameRecord(crc) == ~HasNameRecord(crc)

\* C5 as stated: the i-th emitted entry whose contentId has no name record is
\* named %08X of i followed by ".unknown_file"; the counter starts at 0 and
\* advances once per such entry and never for an entry whose contentId has a
\* name record; synthetic names are pairwise distinct.
C5_CounterPerEntryWithoutRecord ==
    SyntheticNames({crc \in Ids : NoNameRecord(crc)})

\* An entry is unresolved when the lookup finds no tuple of its id or the
\* first tuple of its id has an empty name (NameSize 0, which is also what a
\* read past the end of the file leaves).
LookupEmpty(crc) ==
    Hits(crc) = {} \/ stringEntries[FirstHit(crc)][2].length = 0

\* C5 amended: the same, with "unresolved" meaning that the contentId has no
\* name record or that its first name record has an empty name.
C5_CounterPerUnresolvedEntry ==
    SyntheticNames({crc \in Ids : LookupEmpty(crc)})

C5_Witness ==
    /\ Len(saveCalls) = 2
    /\ HasNameRecord(fileEntries[1].Crc)
    /\ LookupEmpty(fileEntries[1].Crc)
    /\ NoNameRecord(fileEntries[2].Crc)
    /\ saveCalls[1].name.c_str = "00000000.unknown_file"
    /\ saveCalls[2].name.c_str = "00000001.unknown_file"
    /\ unknownFileCount = 2

\* The payload of call j as the file holds it.
PayloadOf(j) == ReadBlock(saveCalls[j].offset)

\* Byte i (from 1) of the raw bytes that follow the chunk-size table; reads
\* past the end of the file leave the zero the buffer was filled with.
RawByte(blk, i) == IF i <= Len(blk.data) THEN blk.data[i] ELSE 0

\* chunk[k]: the sizes[k] raw bytes that follow chunks 1 .. k - 1.
ChunkOf(blk, k) ==
    LET start == SumSeq(SubSeq(blk.sizes, 1, k - 1))
    IN [i \in 1..blk.sizes[k] |-> RawByte(blk, start + i)]

\* decompress(chunk[1]) ++ ... ++ decompress(chunk[k])
RECURSIVE ConcatDecompressed(_, _)
ConcatDecompressed(blk, k) ==
    IF k = 0 THEN <<>>
    ELSE ConcatDecompressed(blk, k - 1) \o aP_depack_asm(ChunkOf(blk, k))

\* C6: for an entry with chunkCount >= 1 the bytes written to its output file
\* are decompress(chunk[0]) ++ ... ++ decompress(chunk[chunkCount - 1]) in
\* chunk order, chunk[k] being the chunkSizes[k] raw bytes read consecutively
\* after the chunk-size table, each piece as long as the decompressor reports.
C6_OutputIsConcatenationOfChunks ==
    \A w \in Range(dump) :
        LET blk == PayloadOf(w.call) IN
        /\ blk.w1 >= 1
        /\ w.data = ConcatDecompressed(blk, blk.w1)
        /\ w.path = "dump//" \o saveCalls[w.call].name.c_str

C6_Witness ==
    \E w \in Range(dump) :
        LET blk == PayloadOf(w.call) IN
        /\ blk.w1 = 2
        /\ Len(aP_depack_asm(ChunkOf(blk, 1))) = 3
        /\ Len(aP_depack_asm(ChunkOf(blk, 2))) = 1
        /\ w.data = <<1, 1, 2, 1>>

\* C7: a failed fopen_s is reported for that entry and changes no other
\* entry's output; every later entry is still processed; the files written
\* are those that would be written without the failure, less the failed ones.
C7_WriteFailureIsIsolated ==
    /\ Failed \subseteq Attempted
    /\ Written = Attempted \ Failed
    /\ Len(dump) = Cardinality(Written)
    /\ \A m \in Range(console) :
          m[1] = "Failed to dump file" =>
              m[3] = "dump//" \o saveCalls[m[2]].name.c_str
    /\ \A w \in Range(dump) :
          w.data = ConcatDecompressed(PayloadOf(w.call), PayloadOf(w.call).w1)
    /\ pc = "dump" => Len(saveCalls) = idx - 1
    /\ KarlReturned =>
          /\ Len(saveCalls) = Len(fileEntries)
          /\ Attempted = {j \in 1..Len(fileEntries) : PayloadOf(j).w1 > 0}

C7_Witness ==
    /\ KarlReturned
    /\ Failed = {1}
    /\ Written = {2}
    /\ dump[1].data # <<>>

\* C8: an entry whose payload header has chunkCount = 0 gets no output file,
\* created or opened, and the next entry is processed.
C8_ZeroChunkEntryWritesNoFile ==
    /\ \A j \in 1..Len(saveCalls) :
          PayloadOf(j).w1 = 0 => (j \notin Attempted /\ j \notin Written)
    /\ pc = "dump" => idx = Len(saveCalls) + 1
    /\ KarlReturned => Len(saveCalls) = Len(fileEntries)

C8_Witness ==
    /\ KarlReturned
    /\ Len(saveCalls) = 2
    /\ PayloadOf(1).w1 = 0
    /\ Attempted = {2}
    /\ Written = {2}

\* The string table as the file holds it, and its first n records.
TableHeld == pak.blocks[MaxPosition(pak.entries)].names

RecordBytes(n) ==
    SumSeq([i \in 1..n |-> NameHeaderSize + TableHeld[i].NameSize])

\* The first n records are whole and are exactly tSize bytes long.
WellFormedTable(n) ==
    /\ n \in 1..Len(TableHeld)
    /\ \A i \in 1..n : TableHeld[i].NameSize = Len(TableHeld[i].Name)
    /\ RecordBytes(n) = DeclaredTableSize

\* C9: for tableByteSize > 0 and n well-formed records whose lengths
\* (8 + nameLength) add up to tableByteSize, the parse loop ends after reading
\* exactly those n records, the accumulator equal to tableByteSize, and
\* nothing read beyond table start + 8 + tableByteSize.
C9_WellFormedTableParsedExactly ==
    \A n \in 1..MaxNameRecords :
        (Len(pak.entries) > 0 /\ WellFormedTable(n)) =>
            /\ pc = "names" =>
                  /\ nRead < n
                  /\ sSize = RecordBytes(nRead)
                  /\ fpos = NameHeaderSize + sSize
            /\ pc \in {"dump", "done"} =>
                  /\ nRead = n
                  /\ Len(stringEntries) = n
                  /\ sSize = tSize
                  /\ tSize = DeclaredTableSize
                  /\ fpos = NameHeaderSize + tSize

C9_Witness ==
    /\ pc = "dump"
    /\ Len(pak.entries) > 0
    /\ Len(TableHeld) = 2
    /\ WellFormedTable(1)
    /\ TableHeld[1].NameSize = 2
    /\ nRead = 1
    /\ fpos = 18

\* C10: the string-table parse loop is bounded on malformed input: for every
\* tableByteSize in 1 .. 2^32 - 1 and every record content the loop
\* eventually exits.
C10_NameLoopExits == (pc = "names") ~> (pc # "names")
====
